---- MODULE Spec2Model ----
(***************************************************************************)
(* A model of am-franchise-calc.py: the command line parsing of __main__,  *)
(* the construction of PpsCalculator and get_franchise_payment, one action *)
(* per external call, computation step or print.                           *)
(*                                                                         *)
(* Python floats are modelled as exact rationals over unbounded naturals   *)
(* (limb sequences), so the constants 1e9, 25, 2**32 and 4.17e-7 keep      *)
(* their values; rounding is not modelled.                                 *)
(***************************************************************************)
EXTENDS Integers, Sequences, FiniteSets, TLC

----------------------------------------------------------------------------
(* Exact arithmetic: naturals as little-endian limb sequences.             *)

Radix == 100 * 100

RECURSIVE NatOf(_)
NatOf(i) == IF i = 0 THEN <<>> ELSE <<i % Radix>> \o NatOf(i \div Radix)

RECURSIVE NNorm(_)
NNorm(a) ==
    IF a = <<>> THEN <<>>
    ELSE IF a[Len(a)] = 0 THEN NNorm(SubSeq(a, 1, Len(a) - 1))
    ELSE a

NHead(a) == IF a = <<>> THEN 0 ELSE Head(a)
NTail(a) == IF a = <<>> THEN <<>> ELSE Tail(a)

RECURSIVE NAddC(_, _, _)
NAddC(a, b, c) ==
    IF a = <<>> /\ b = <<>> THEN (IF c = 0 THEN <<>> ELSE <<c>>)
    ELSE LET x == NHead(a) + NHead(b) + c
         IN  <<x % Radix>> \o NAddC(NTail(a), NTail(b), x \div Radix)

NAdd(a, b) == NAddC(a, b, 0)

RECURSIVE NSubB(_, _, _)
\* a - b - c for a >= b + c
NSubB(a, b, c) ==
    IF a = <<>> THEN <<>>
    ELSE LET x == NHead(a) - NHead(b) - c
         IN  IF x < 0 THEN <<x + Radix>> \o NSubB(NTail(a), NTail(b), 1)
             ELSE <<x>> \o NSubB(NTail(a), NTail(b), 0)

NSub(a, b) == NNorm(NSubB(a, b, 0))

RECURSIVE NMulS(_, _, _)
NMulS(a, k, c) ==
    IF a = <<>> THEN (IF c = 0 THEN <<>> ELSE <<c>>)
    ELSE LET x == Head(a) * k + c
         IN  <<x % Radix>> \o NMulS(Tail(a), k, x \div Radix)

RECURSIVE NMul(_, _)
NMul(a, b) ==
    IF a = <<>> \/ b = <<>> THEN <<>>
    ELSE NNorm(NAdd(NMulS(a, Head(b), 0), <<0>> \o NMul(a, Tail(b))))

RECURSIVE NLess(_, _)
\* a < b, both normalised
NLess(a, b) ==
    IF Len(a) # Len(b) THEN Len(a) < Len(b)
    ELSE IF a = <<>> THEN FALSE
    ELSE IF a[Len(a)] # b[Len(b)] THEN a[Len(a)] < b[Len(b)]
    ELSE NLess(SubSeq(a, 1, Len(a) - 1), SubSeq(b, 1, Len(b) - 1))

(* Signed integers [neg, mag]; zero is never negative.                     *)
ZMk(neg, mag) == [neg |-> neg /\ mag # <<>>, mag |-> mag]
ZOf(i) == IF i < 0 THEN ZMk(TRUE, NatOf(0 - i)) ELSE ZMk(FALSE, NatOf(i))
ZNeg(a) == ZMk(~a.neg, a.mag)
ZMul(a, b) == ZMk(a.neg # b.neg, NMul(a.mag, b.mag))
ZAdd(a, b) ==
    IF a.neg = b.neg THEN ZMk(a.neg, NAdd(a.mag, b.mag))
    ELSE IF NLess(a.mag, b.mag) THEN ZMk(b.neg, NSub(b.mag, a.mag))
    ELSE ZMk(a.neg, NSub(a.mag, b.mag))
ZSub(a, b) == ZAdd(a, ZNeg(b))
ZSign(a) == IF a.mag = <<>> THEN 0 ELSE IF a.neg THEN 0 - 1 ELSE 1

(* Rationals [n, d] with d > 0; not reduced, compared by cross product.    *)
QMk(n, d) == IF d.neg THEN [n |-> ZNeg(n), d |-> ZNeg(d)] ELSE [n |-> n, d |-> d]
QOf(i) == [n |-> ZOf(i), d |-> ZOf(1)]
QFrac(i, j) == QMk(ZOf(i), ZOf(j))
QMul(a, b) == QMk(ZMul(a.n, b.n), ZMul(a.d, b.d))
QSub(a, b) == QMk(ZSub(ZMul(a.n, b.d), ZMul(b.n, a.d)), ZMul(a.d, b.d))
QDiv(a, b) == QMk(ZMul(a.n, b.d), ZMul(a.d, b.n))
QSign(a) == ZSign(a.n)
QEq(a, b) == ZMul(a.n, b.d) = ZMul(b.n, a.d)
QLess(a, b) == QSign(QSub(a, b)) < 0
QIsZero(a) == QSign(a) = 0

----------------------------------------------------------------------------
(* Values of the program.                                                  *)

\* an unassigned name: a number, a block
QNone == [n |-> ZOf(0), d |-> ZOf(0)]
NoBlock == [hash |-> <<>>, height |-> 0 - 1, difficulty |-> 0, time |-> 0]

\* sys.argv[1:] is a sequence of tokens; dash says the token starts with '-'
Tok(dash, body) == [dash |-> dash, body |-> body]

\* the short options of "hp:c:g:e:y:" and those that take an argument
Flags == {"h", "p", "c", "g", "e", "y"}
HasArg(opt) == opt # "h"

\* a conversion's result: ok is FALSE where Python raises ValueError
Parsed(v) == [ok |-> TRUE, val |-> v]
Unparsed(v) == [ok |-> FALSE, val |-> v]

\* the digit strings int() accepts (bodies, without the sign)
IntLit(body) ==
    CASE body = "0" -> Parsed(0)
      [] body = "1" -> Parsed(1)
      [] body = "2" -> Parsed(2)
      [] OTHER -> Unparsed(0)

\* the strings float() accepts (bodies, without the sign)
FloatLit(body) ==
    CASE body = "1.5" -> Parsed(QFrac(3, 2))
      [] OTHER -> IF IntLit(body).ok THEN Parsed(QOf(IntLit(body).val))
                  ELSE Unparsed(QOf(0))

\* int(arg)
PyInt(tok) ==
    IF tok.dash THEN [IntLit(tok.body) EXCEPT !.val = 0 - @] ELSE IntLit(tok.body)

\* float(arg)
PyFloat(tok) ==
    IF tok.dash THEN [FloatLit(tok.body) EXCEPT !.val = QSub(QOf(0), @)]
    ELSE FloatLit(tok.body)

RECURSIVE Getopt(_, _)
\* getopt.getopt(sys.argv[1:], "hp:c:g:e:y:"): err stands for GetoptError
Getopt(args, opts) ==
    IF args = <<>> \/ ~Head(args).dash THEN [err |-> FALSE, opts |-> opts]
    ELSE LET opt == Head(args).body
         IN  IF opt \notin Flags THEN [err |-> TRUE, opts |-> opts]
             ELSE IF ~HasArg(opt)
                  THEN Getopt(Tail(args), Append(opts, [opt |-> opt, arg |-> Tok(FALSE, "")]))
             ELSE IF Tail(args) = <<>> THEN [err |-> TRUE, opts |-> opts]
             ELSE Getopt(Tail(Tail(args)), Append(opts, [opt |-> opt, arg |-> args[2]]))

\* the defaults of __main__
GHPS == 1000000000
BLOCK_REWARD == 25
DIFF1 == ZMul(ZOf(2 ^ 16), ZOf(2 ^ 16))
BlocksPerPeriod == 2016
LastCompleted == 0 - 1
DefaultPps == 80
DefaultGhps == 10
DefaultE == QFrac(417, GHPS)

Defaults ==
    [diff_cycle |-> LastCompleted, pps_rate |-> QOf(DefaultPps), e |-> DefaultE,
     ghps |-> QOf(DefaultGhps), y |-> QOf(0), outcome |-> "ok"]

\* one iteration of the loop over opts
ApplyOpt(st, o) ==
    IF o.opt = "h" THEN [st EXCEPT !.outcome = "usage"]
    ELSE IF o.opt = "c"
         THEN IF ~PyInt(o.arg).ok THEN [st EXCEPT !.outcome = "ValueError"]
              ELSE [st EXCEPT !.diff_cycle = PyInt(o.arg).val]
    ELSE IF ~PyFloat(o.arg).ok THEN [st EXCEPT !.outcome = "ValueError"]
    ELSE IF o.opt = "p" THEN [st EXCEPT !.pps_rate = PyFloat(o.arg).val]
    ELSE IF o.opt = "g" THEN [st EXCEPT !.ghps = PyFloat(o.arg).val]
    ELSE IF o.opt = "e" THEN [st EXCEPT !.e = PyFloat(o.arg).val]
    ELSE [st EXCEPT !.y = PyFloat(o.arg).val]

RECURSIVE ApplyOpts(_, _)
\* for opt, arg in opts: ...; stops at usage() or at the first ValueError
ApplyOpts(opts, st) ==
    IF opts = <<>> \/ st.outcome # "ok" THEN st
    ELSE ApplyOpts(Tail(opts), ApplyOpt(st, Head(opts)))

\* the six lines usage() prints
UsageText ==
    << [line |-> 119, args |-> <<>>], [line |-> 120, args |-> <<QOf(DefaultPps)>>],
       [line |-> 121, args |-> <<>>], [line |-> 122, args |-> <<QOf(DefaultGhps)>>],
       [line |-> 123, args |-> <<DefaultE>>], [line |-> 124, args |-> <<>>] >>

\* the chain-data source: the hash of the block at a height, and whether it has one
BlockHash(h) == <<"hash", h>>
HasBlock(h, tip) == 0 <= h /\ h <= tip

BeyondTipOffByOne(block_nr, blockcount) == block_nr > blockcount + 1

BeyondTipInclusive(block_nr, blockcount) == block_nr >= blockcount

\* getblock's test for a height beyond the chain
BeyondTip(block_nr, blockcount) == block_nr > blockcount

CurrentPeriod(blockcount) == blockcount \div BlocksPerPeriod

\* period = (self.blockcount / 2016) - 1
LastCompletedPeriod(blockcount) == (blockcount \div BlocksPerPeriod) - 1

\* the integer cube root of a perfect cube (the feeds of the model are such)
CubeRoot(n) == CHOOSE r \in 0..n : r * r * r = n

\* GHPS * BLOCK_REWARD / float(DIFF1 * diff), for diff # 0
btc_per_second_at_diff(diff) ==
    QDiv(QMk(ZMul(ZOf(GHPS), ZOf(BLOCK_REWARD)), ZOf(1)), QMk(ZMul(DIFF1, ZOf(diff)), ZOf(1)))

----------------------------------------------------------------------------
(* Bounds of the model, and the two environments it is checked in.         *)

MaxArgs == 2
MaxTime == 1
MaxPeriods == 2

\* the tokens of a command line
Tokens ==
    {Tok(TRUE, f) : f \in Flags \cup {"x", "1", "2"}}
        \cup {Tok(FALSE, b) : b \in {"0", "1", "2", "1.5", "abc"}}

RECURSIVE SeqsUpTo(_, _)
SeqsUpTo(S, n) ==
    IF n = 0 THEN {<<>>}
    ELSE SeqsUpTo(S, n - 1)
            \cup {Append(q, t) : q \in {r \in SeqsUpTo(S, n - 1) : Len(r) = n - 1}, t \in S}

\* one option with its value
Opt(f, dash, body) == <<Tok(TRUE, f), Tok(dash, body)>>

\* the command lines of the chain environment
ChainArgvs ==
    {<<>>, Opt("c", FALSE, "0"), Opt("c", FALSE, "1"), Opt("c", FALSE, "2"),
     Opt("c", TRUE, "1"), Opt("c", TRUE, "2"),
     Opt("p", FALSE, "0"), Opt("p", TRUE, "1"), Opt("g", FALSE, "0"),
     Opt("g", TRUE, "2"), Opt("e", FALSE, "0"), Opt("e", TRUE, "1"),
     Opt("e", FALSE, "2"), Opt("y", FALSE, "2"), Opt("y", TRUE, "1"),
     Opt("g", FALSE, "2") \o Opt("y", FALSE, "1.5"),
     Opt("p", TRUE, "1") \o Opt("g", TRUE, "1")}

\* chain heights around the period boundaries
Heights == {p * BlocksPerPeriod + o : p \in 0..MaxPeriods, o \in {0, 1, BlocksPerPeriod - 1}}

\* what the price feed may answer: three rates whose product is a cube
Feeds == {<<1, 1, 1>>, <<1, 2, 4>>, <<0, 1, 1>>, <<0 - 1, 1, 1>>, <<0 - 1, 0 - 1, 1>>}

CliEnv ==
    [heights |-> {BlocksPerPeriod - 1, 2 * BlocksPerPeriod}, times |-> {0, 1},
     diffs |-> {0, 1}, feeds |-> {<<1, 1, 1>>, <<0, 1, 1>>, <<0 - 1, 1, 1>>}]

ChainEnv ==
    [heights |-> Heights, times |-> 0..MaxTime,
     diffs |-> {1, 2 * GHPS}, feeds |-> Feeds]

----------------------------------------------------------------------------
(* State.                                                                  *)

VARIABLES
    argv,         \* sys.argv[1:]
    env,          \* what the chain-data source and the price feed may answer
    pc,           \* the statement the run is at
    main,         \* the names of __main__: diff_cycle, pps_rate, e, ghps, y
    self,         \* the fields of the PpsCalculator
    gb,           \* the frame of getblock: its caller, block_nr, blockhash
    gfp,          \* the locals of get_franchise_payment
    chain,        \* the blocks the chain-data source has shown, by height
    calls,        \* the calls made to the chain-data source and the price feed
    stdout,       \* the lines printed: the source line of the print, its arguments
    exc,          \* the exception that ended the run, "" if none
    exit_status   \* the exit status, -1 while running

vars == <<argv, env, pc, main, self, gb, gfp, chain, calls, stdout, exc, exit_status>>

NoSelf ==
    [pps_rate |-> QNone, gh |-> QNone, blockcount |-> 0 - 1, lastblock |-> NoBlock,
     y |-> QNone, btcusd |-> QNone]

NoFrame == [site |-> "", block_nr |-> 0, blockhash |-> <<>>]

NoLocals ==
    [period |-> 0, block0 |-> 0, block1 |-> 0, b0 |-> NoBlock, b1 |-> NoBlock,
     diff |-> 0, t0 |-> 0, t1 |-> 0, dtime |-> 0, bpgs |-> QNone,
     gross_pps100 |-> QNone, my_pps |-> QNone, expenses_usd |-> QNone,
     expenses_btc |-> QNone, net_pps100 |-> QNone]

InitWith(argvs, e) ==
    /\ argv \in argvs
    /\ env = e
    /\ pc = "main"
    /\ main = Defaults
    /\ self = NoSelf
    /\ gb = NoFrame
    /\ gfp = NoLocals
    /\ chain = <<>>
    /\ calls = <<>>
    /\ stdout = <<>>
    /\ exc = ""
    /\ exit_status = 0 - 1

Init == InitWith(SeqsUpTo(Tokens, MaxArgs), CliEnv)

InitChain == InitWith(ChainArgvs, ChainEnv)

\* an uncaught exception: the traceback goes to stderr, the status is 1
Raise(name) ==
    /\ pc' = "failed"
    /\ exc' = name
    /\ exit_status' = 1

Call(op, arg, site) == calls' = Append(calls, [op |-> op, arg |-> arg, site |-> site])

Emit(lines) == stdout' = stdout \o lines

----------------------------------------------------------------------------
(* __main__, lines 108-139.                                                *)

\* lines 127-136: getopt, then the loop over the options
ParseArgs ==
    /\ pc = "main"
    /\ LET g == Getopt(argv, <<>>)
           st == ApplyOpts(g.opts, Defaults)
       IN  IF g.err \/ st.outcome = "usage"
           THEN /\ stdout' = stdout \o UsageText
                /\ pc' = "exited"
                /\ exit_status' = 2
                /\ UNCHANGED <<main, exc>>
           ELSE IF st.outcome = "ValueError"
           THEN /\ Raise("ValueError")
                /\ UNCHANGED <<main, stdout>>
           ELSE /\ main' = st
                /\ pc' = "__init__"
                /\ UNCHANGED <<stdout, exc, exit_status>>
    /\ UNCHANGED <<argv, env, self, gb, gfp, chain, calls>>

----------------------------------------------------------------------------
(* PpsCalculator.__init__, lines 51-59.                                    *)

\* lines 52-54: the two fields, then bitcoinrpc.connect_to_local()
Connect ==
    /\ pc = "__init__"
    /\ self' = [self EXCEPT !.pps_rate = main.pps_rate, !.gh = main.ghps]
    /\ Call("connect_to_local", 0, "__init__")
    /\ \/ pc' = "getblockcount" /\ UNCHANGED <<exc, exit_status>>
       \/ Raise("chain")
    /\ UNCHANGED <<argv, env, main, gb, gfp, chain, stdout>>

\* line 55, and the call of getblock of line 56
GetBlockCount ==
    /\ pc = "getblockcount"
    /\ Call("getblockcount", 0, "__init__")
    /\ \/ \E h \in env.heights :
            /\ self' = [self EXCEPT !.blockcount = h]
            /\ gb' = [site |-> "__init__", block_nr |-> h, blockhash |-> <<>>]
            /\ pc' = "getblock"
            /\ UNCHANGED <<exc, exit_status>>
       \/ Raise("chain") /\ UNCHANGED <<self, gb>>
    /\ UNCHANGED <<argv, env, main, gfp, chain, stdout>>

\* get_btcusd's result for the rates r: the geometric mean, or ValueError
\* (Python 2 refuses a negative base of a fractional power)
GeometricMean(r) ==
    IF r[1] * r[2] * r[3] < 0 THEN Unparsed(QOf(0))
    ELSE Parsed(QOf(CubeRoot(r[1] * r[2] * r[3])))

----------------------------------------------------------------------------
(* PpsCalculator.getblock, lines 74-78; it returns to its caller.          *)

\* what the caller does with the block: line 56 to 59, line 84, line 85
Return(site, block) ==
    IF site = "__init__"
    THEN /\ self' = [self EXCEPT !.lastblock = block, !.y = main.e,
                                 !.btcusd = main.y]
         /\ pc' = IF QSign(main.y) <= 0 THEN "get_btcusd" ELSE "get_franchise_payment"
         /\ UNCHANGED <<gfp, gb>>
    ELSE IF site = "b0"
    THEN /\ gfp' = [gfp EXCEPT !.b0 = block]
         /\ gb' = [site |-> "b1", block_nr |-> gfp.block1, blockhash |-> <<>>]
         /\ pc' = "getblock"
         /\ UNCHANGED self
    ELSE /\ gfp' = [gfp EXCEPT !.b1 = block]
         /\ pc' = "line86"
         /\ UNCHANGED <<self, gb>>

\* lines 75-76
GetblockBeyond ==
    /\ pc = "getblock"
    /\ BeyondTip(gb.block_nr, self.blockcount)
    /\ Return(gb.site, self.lastblock)
    /\ UNCHANGED <<argv, env, main, chain, calls, stdout, exc, exit_status>>

\* line 77
GetblockHash ==
    /\ pc = "getblock"
    /\ ~BeyondTip(gb.block_nr, self.blockcount)
    /\ Call("getblockhash", gb.block_nr, gb.site)
    /\ \/ /\ HasBlock(gb.block_nr, self.blockcount)
          /\ gb' = [gb EXCEPT !.blockhash = BlockHash(gb.block_nr)]
          /\ pc' = "line78"
          /\ UNCHANGED <<exc, exit_status>>
       \/ Raise("chain") /\ UNCHANGED gb
    /\ UNCHANGED <<argv, env, main, self, gfp, chain, stdout>>

\* the records the chain-data source may hold for a hash
BlocksOf(hash) ==
    IF hash[2] \in DOMAIN chain THEN {chain[hash[2]]}
    ELSE {[hash |-> hash, height |-> hash[2], difficulty |-> d, time |-> t] :
             d \in env.diffs, t \in env.times}

\* line 78
GetblockFetch ==
    /\ pc = "line78"
    /\ Call("getblock", gb.blockhash[2], gb.site)
    /\ \/ \E block \in BlocksOf(gb.blockhash) :
            /\ chain' = (gb.blockhash[2] :> block) @@ chain
            /\ Return(gb.site, block)
            /\ UNCHANGED <<exc, exit_status>>
       \/ Raise("chain") /\ UNCHANGED <<self, gb, gfp, chain>>
    /\ UNCHANGED <<argv, env, main, stdout>>

----------------------------------------------------------------------------
(* PpsCalculator.get_btcusd, lines 62-68, called from line 59.             *)

get_btcusd ==
    /\ pc = "get_btcusd"
    /\ Call("urlopen", 0, "__init__")
    /\ \/ Raise("feed") /\ UNCHANGED <<self, stdout>>
       \/ \E r \in env.feeds :
            /\ Emit(<<[line |-> 67, args |-> <<QOf(r[1]), QOf(r[2]), QOf(r[3])>>]>>)
            /\ IF GeometricMean(r).ok
               THEN /\ self' = [self EXCEPT !.btcusd = GeometricMean(r).val]
                    /\ pc' = "get_franchise_payment"
                    /\ UNCHANGED <<exc, exit_status>>
               ELSE Raise("ValueError") /\ UNCHANGED self
    /\ UNCHANGED <<argv, env, main, gb, gfp, chain>>

----------------------------------------------------------------------------
(* PpsCalculator.get_franchise_payment, lines 80-104.                      *)

AnyNegativeIsLast(period, blockcount) ==
    IF period < 0 THEN LastCompletedPeriod(blockcount) ELSE period

\* line 81
ResolvedPeriod(period, blockcount) ==
    IF period = LastCompleted THEN LastCompletedPeriod(blockcount) ELSE period

\* lines 81-83, and the call of getblock of line 84
ResolvePeriod ==
    /\ pc = "get_franchise_payment"
    /\ LET period == ResolvedPeriod(main.diff_cycle, self.blockcount)
           block0 == period * BlocksPerPeriod
       IN  /\ gfp' = [gfp EXCEPT !.period = period, !.block0 = block0,
                                 !.block1 = block0 + BlocksPerPeriod]
           /\ gb' = [site |-> "b0", block_nr |-> block0, blockhash |-> <<>>]
    /\ pc' = "getblock"
    /\ UNCHANGED <<argv, env, main, self, chain, calls, stdout, exc, exit_status>>

EndDifficulty(b0, b1) == b1.difficulty

\* line 86: the difficulty the income is computed at
PeriodDifficulty(b0, b1) == b0.difficulty

\* lines 86-87
PrintPeriod ==
    /\ pc = "line86"
    /\ LET diff == PeriodDifficulty(gfp.b0, gfp.b1)
       IN  /\ gfp' = [gfp EXCEPT !.diff = diff]
           /\ Emit(<<[line |-> 87,
                       args |-> <<QOf(gfp.period), QOf(gfp.block0), QOf(gfp.block1),
                                  QOf(diff)>>]>>)
    /\ pc' = "line88"
    /\ UNCHANGED <<argv, env, main, self, gb, chain, calls, exc, exit_status>>

\* lines 88-91
PrintDuration ==
    /\ pc = "line88"
    /\ LET t0 == gfp.b0.time
           t1 == gfp.b1.time
       IN  /\ gfp' = [gfp EXCEPT !.t0 = t0, !.t1 = t1, !.dtime = t1 - t0]
           /\ Emit(<<[line |-> 91, args |-> <<QOf(t1 - t0), QOf(t0), QOf(t1)>>]>>)
    /\ pc' = "line92"
    /\ UNCHANGED <<argv, env, main, self, gb, chain, calls, exc, exit_status>>

\* lines 92-93
ComputeIncome ==
    /\ pc = "line92"
    /\ IF gfp.diff = 0
       THEN Raise("ZeroDivisionError") /\ UNCHANGED gfp
       ELSE /\ gfp' = [gfp EXCEPT
                         !.bpgs = btc_per_second_at_diff(gfp.diff),
                         !.gross_pps100 =
                             QMul(btc_per_second_at_diff(gfp.diff), QOf(gfp.dtime))]
            /\ pc' = "line94"
            /\ UNCHANGED <<exc, exit_status>>
    /\ UNCHANGED <<argv, env, main, self, gb, chain, calls, stdout>>

ExpensesLessIncome(gross_pps100, expenses_btc) == QSub(expenses_btc, gross_pps100)

\* line 97
NetIncome(gross_pps100, expenses_btc) == QSub(gross_pps100, expenses_btc)

\* lines 94-97
ComputeExpenses ==
    /\ pc = "line94"
    /\ LET my_pps == QDiv(self.pps_rate, QOf(100))
           expenses_usd == QMul(QOf(gfp.dtime), self.y)
       IN  IF QIsZero(self.btcusd)
           THEN /\ Raise("ZeroDivisionError")
                /\ gfp' = [gfp EXCEPT !.my_pps = my_pps, !.expenses_usd = expenses_usd]
           ELSE /\ gfp' = [gfp EXCEPT
                             !.my_pps = my_pps,
                             !.expenses_usd = expenses_usd,
                             !.expenses_btc = QDiv(expenses_usd, self.btcusd),
                             !.net_pps100 =
                                 NetIncome(gfp.gross_pps100,
                                           QDiv(expenses_usd, self.btcusd))]
                /\ pc' = "line98"
                /\ UNCHANGED <<exc, exit_status>>
    /\ UNCHANGED <<argv, env, main, self, gb, chain, calls, stdout>>

\* the argument of the last print: my_pps * net_pps100 * self.gh
FranchisePayment(my_pps, net_pps100, gh) == QMul(QMul(my_pps, net_pps100), gh)

\* lines 98-104, and the end of the script
PrintReport ==
    /\ pc = "line98"
    /\ Emit(<< [line |-> 98, args |-> <<gfp.gross_pps100>>],
                [line |-> 99, args |-> <<self.y, gfp.expenses_usd>>],
                [line |-> 100, args |-> <<self.btcusd>>],
                [line |-> 101, args |-> <<gfp.expenses_btc>>],
                [line |-> 102, args |-> <<gfp.net_pps100>>],
                [line |-> 103,
                 args |-> <<self.pps_rate, QMul(gfp.my_pps, gfp.net_pps100)>>],
                [line |-> 104,
                 args |-> <<self.gh,
                            FranchisePayment(gfp.my_pps, gfp.net_pps100, self.gh)>>] >>)
    /\ pc' = "done"
    /\ exit_status' = 0
    /\ UNCHANGED <<argv, env, main, self, gb, gfp, chain, calls, exc>>

Next ==
    \/ ParseArgs
    \/ Connect
    \/ GetBlockCount
    \/ GetblockBeyond
    \/ GetblockHash
    \/ GetblockFetch
    \/ get_btcusd
    \/ ResolvePeriod
    \/ PrintPeriod
    \/ PrintDuration
    \/ ComputeIncome
    \/ ComputeExpenses
    \/ PrintReport

Spec == Init /\ [][Next]_vars

SpecChain == InitChain /\ [][Next]_vars

----------------------------------------------------------------------------
(* Properties.                                                             *)

\* get_franchise_payment has resolved its period and called getblock
Resolved == gb.site \in {"b0", "b1"}

LastLine == stdout[Len(stdout)]

\* the calls of one getblock(h) made by `site`: none beyond the chain height
Lookups(site, h) ==
    IF h > self.blockcount THEN <<>>
    ELSE << [op |-> "getblockhash", arg |-> h, site |-> site],
            [op |-> "getblock", arg |-> h, site |-> site] >>

IsLookup(c) == c.op \in {"getblockhash", "getblock"}

\* (ppsRate / 100) * (grossIncomeBtc - duration * expenseFactor / exchangeRate) * ghps
\* with grossIncomeBtc = 1e9 * 25 * duration / (2^32 * block0.difficulty)
ClosedForm(block0, block1, ppsRate, ghps, expenseFactor, exchangeRate) ==
    LET duration == QOf(block1.time - block0.time)
        grossIncomeBtc ==
            QDiv(QMul(QMul(QOf(GHPS), QOf(BLOCK_REWARD)), duration),
                 QMul(QMk(DIFF1, ZOf(1)), QOf(block0.difficulty)))
    IN  QMul(QMul(QDiv(ppsRate, QOf(100)),
                  QSub(grossIncomeBtc,
                       QDiv(QMul(duration, expenseFactor), exchangeRate))),
             ghps)

\* C1: a run that reports, at an exchange rate > 0, reports on its last line the
\* payment (ppsRate/100) * (gross - duration*expenseFactor/exchangeRate) * ghps,
\* the gross income taken at block0's difficulty; a rate given with -y is the
\* rate used.
C1_PaymentFormula ==
    (pc = "done" /\ QSign(self.btcusd) > 0) =>
        /\ LastLine.line = 104
        /\ QSign(main.y) > 0 => QEq(self.btcusd, main.y)
        /\ QEq(LastLine.args[2],
               ClosedForm(gfp.b0, gfp.b1, main.pps_rate, main.ghps, main.e, self.btcusd))

C1_Witness ==
    /\ pc = "done"
    /\ QSign(self.btcusd) > 0
    /\ gfp.b0.difficulty # gfp.b1.difficulty
    /\ gfp.b1.time # gfp.b0.time
    /\ QSign(LastLine.args[2]) > 0

\* C2: with the "last completed" sentinel the period evaluated is
\* floor(blockcount / 2016) - 1 (1 at height 4032, 0 at height 4031); its ending
\* height (period + 1) * 2016 is <= blockcount, and block1 is the block the chain-data
\* source holds at that height, looked up and never replaced by the latest block.
C2_LastCompleted ==
    (Resolved /\ main.diff_cycle = LastCompleted) =>
        /\ (gfp.period + 1) * 2016 <= self.blockcount
        /\ self.blockcount < (gfp.period + 2) * 2016
        /\ self.blockcount = 4032 => gfp.period = 1
        /\ self.blockcount = 4031 => gfp.period = 0
        /\ gfp.block1 = (gfp.period + 1) * 2016
        /\ gfp.b1 # NoBlock =>
              /\ gfp.b1.height = gfp.block1
              /\ \E i \in 1..Len(calls) :
                    calls[i] = [op |-> "getblock", arg |-> gfp.block1, site |-> "b1"]

C2_Witness ==
    /\ Resolved
    /\ main.diff_cycle = LastCompleted
    /\ self.blockcount = 4032
    /\ gfp.b1 # NoBlock

\* what getblock(h) called by `site` returned, when it has returned `block`
Returned(site, h, block) ==
    IF h > self.blockcount
    THEN /\ block = self.lastblock
         /\ \A i \in 1..Len(calls) : calls[i].site # site
    ELSE /\ block.hash = BlockHash(h)
         /\ h \in DOMAIN chain /\ block = chain[h]
         /\ \E i \in 1..Len(calls) - 1 :
               /\ calls[i] = [op |-> "getblockhash", arg |-> h, site |-> site]
               /\ calls[i + 1] = [op |-> "getblock", arg |-> h, site |-> site]

\* C3: getblock of a height above blockcount returns the latest block, the one
\* getblock(blockcount) returned at construction, and asks the chain-data source
\* nothing; of a height <= blockcount it returns the block of the hash the source
\* gave for that height. The source is never asked for a height above blockcount.
C3_Getblock ==
    /\ self.lastblock # NoBlock => Returned("__init__", self.blockcount, self.lastblock)
    /\ gfp.b0 # NoBlock => Returned("b0", gfp.block0, gfp.b0)
    /\ gfp.b1 # NoBlock => Returned("b1", gfp.block1, gfp.b1)
    /\ \A i \in 1..Len(calls) : IsLookup(calls[i]) => calls[i].arg <= self.blockcount

C3_Witness ==
    /\ gfp.b1 # NoBlock
    /\ gfp.block0 <= self.blockcount
    /\ gfp.block1 > self.blockcount
    /\ gfp.b1 = self.lastblock
    /\ gfp.b0 # self.lastblock

\* the command line starts with -c and an integer, and has no other -c
CycleSupplied ==
    /\ Len(argv) >= 2
    /\ argv[1] = Tok(TRUE, "c")
    /\ PyInt(argv[2]).ok
    /\ \A i \in 3..Len(argv) : argv[i] # Tok(TRUE, "c")

SuppliedCycle == PyInt(argv[2]).val

NoCycleOption == \A i \in 1..Len(argv) : argv[i] # Tok(TRUE, "c")

\* the period evaluated is `index`: the heights computed and passed to getblock
Evaluates(index) ==
    /\ gfp.period = index
    /\ gfp.block0 = index * 2016
    /\ gfp.block1 = index * 2016 + 2016
    /\ gb.site = "b0" => gb.block_nr = index * 2016
    /\ gb.site = "b1" => gb.block_nr = index * 2016 + 2016

\* C4 (as the claim states it): every index supplied with -c is the period evaluated.
C4_Original == (Resolved /\ CycleSupplied) => Evaluates(SuppliedCycle)

\* C4 (amended): every index other than -1 supplied with -c is the period evaluated,
\* block0's height index * 2016 and block1's index * 2016 + 2016; -c -1, like the
\* absence of -c, selects the last completed period floor(blockcount / 2016) - 1.
C4_SuppliedPeriod ==
    /\ (Resolved /\ CycleSupplied /\ SuppliedCycle # 0 - 1) => Evaluates(SuppliedCycle)
    /\ (Resolved /\ ((CycleSupplied /\ SuppliedCycle = 0 - 1) \/ NoCycleOption)) =>
          /\ (gfp.period + 1) * 2016 <= self.blockcount
          /\ self.blockcount < (gfp.period + 2) * 2016
          /\ Evaluates(gfp.period)

C4_Witness ==
    /\ Resolved
    /\ CycleSupplied
    /\ SuppliedCycle < 0 - 1
    /\ gb.site = "b0"
    /\ pc = "failed"

\* the first option is unknown, or takes a value its type cannot parse
UnknownFirst == Len(argv) >= 1 /\ argv[1].dash /\ argv[1].body \notin Flags

MalformedFirst ==
    /\ Len(argv) >= 2
    /\ argv[1].dash
    /\ \/ argv[1].body \in {"p", "g", "e", "y"} /\ ~PyFloat(argv[2]).ok
       \/ argv[1].body = "c" /\ ~PyInt(argv[2]).ok

\* C5: a command line with an unknown flag or an unparsable value ends with the usage
\* text printed and status 2, before anything was constructed or contacted.
C5_UsageOnBadInput ==
    (pc # "main" /\ (UnknownFirst \/ MalformedFirst)) =>
        /\ pc = "exited"
        /\ exit_status = 2
        /\ stdout = UsageText
        /\ calls = <<>>

\* C6: a run ended by a failing chain-data call, a failing price feed or a division
\* by zero has printed nothing.
C6_NoPartialOutput ==
    (pc = "failed" /\ exc \in {"chain", "feed", "ZeroDivisionError"}) => stdout = <<>>

\* C7: once the expenses are computed, the expense factor and the exchange rate are
\* both > 0 (a run with either <= 0 ends in an error before).
C7_PositiveAtExpenses ==
    gfp.expenses_btc # QNone => (QSign(self.y) > 0 /\ QSign(self.btcusd) > 0)

\* the run computed expenses in BTC above the gross income
ExpensesExceedIncome ==
    gfp.expenses_btc # QNone /\ QLess(gfp.gross_pps100, gfp.expenses_btc)

\* the run ended with the seven lines of the report as its last output
FullReport ==
    /\ pc = "done" /\ exit_status = 0 /\ exc = ""
    /\ Len(stdout) >= 7
    /\ \A k \in 0..6 : stdout[Len(stdout) - 6 + k].line = 98 + k

\* C8 (as the claim states it): expenses above the gross income give a negative
\* reported net income and a negative reported payment.
C8_Original ==
    (pc = "done" /\ ExpensesExceedIncome) =>
        /\ QSign(stdout[Len(stdout) - 2].args[1]) < 0
        /\ QSign(LastLine.args[2]) < 0

\* C8 (amended): with expenses above the gross income the run does not fail, it ends
\* with the full report; the reported net income is negative, and the reported
\* payment is negative when ppsRate * ghps > 0 (it is zero or positive otherwise).
C8_NegativeNet ==
    ExpensesExceedIncome =>
        /\ pc \in {"line98", "done"}
        /\ QSign(gfp.net_pps100) < 0
        /\ pc = "done" =>
              /\ FullReport
              /\ QSign(stdout[Len(stdout) - 2].args[1]) < 0
              /\ QSign(LastLine.args[2]) = 0 - QSign(QMul(main.pps_rate, main.ghps))

C8_Witness ==
    /\ pc = "done"
    /\ ExpensesExceedIncome
    /\ QSign(QMul(main.pps_rate, main.ghps)) > 0
    /\ QSign(LastLine.args[2]) < 0

\* the calls to the chain-data source of a run
ChainCalls == SelectSeq(calls, LAMBDA c : c.op # "urlopen")

\* C9 (as the claim states it): a complete run makes four block-lookup calls, two for
\* block0 then two for block1, and construction only connects and asks the height.
C9_Original ==
    pc = "done" =>
        ChainCalls =
            << [op |-> "connect_to_local", arg |-> 0, site |-> "__init__"],
               [op |-> "getblockcount", arg |-> 0, site |-> "__init__"],
               [op |-> "getblockhash", arg |-> gfp.block0, site |-> "b0"],
               [op |-> "getblock", arg |-> gfp.block0, site |-> "b0"],
               [op |-> "getblockhash", arg |-> gfp.block1, site |-> "b1"],
               [op |-> "getblock", arg |-> gfp.block1, site |-> "b1"] >>

\* C9 (amended): a complete run asks the chain-data source, in this order: the
\* connection and the height, a hash lookup and a block retrieval for the latest
\* block (all four at construction), then a hash lookup and a block retrieval for
\* block0 and for block1, each only if its height is <= blockcount.
C9_ChainCalls ==
    pc = "done" =>
        ChainCalls =
            << [op |-> "connect_to_local", arg |-> 0, site |-> "__init__"],
               [op |-> "getblockcount", arg |-> 0, site |-> "__init__"] >>
              \o Lookups("__init__", self.blockcount)
              \o Lookups("b0", gfp.block0)
              \o Lookups("b1", gfp.block1)

C9_Witness ==
    /\ pc = "done"
    /\ Len(SelectSeq(calls, IsLookup)) = 6
    /\ gfp.block1 = self.blockcount

\* C10: with no period supplied, the period evaluated is >= 0, both boundary heights
\* are within 0..blockcount, and the chain-data source is asked for no negative height.
C10_NoNegativeHeight ==
    (Resolved /\ argv = <<>>) =>
        /\ gfp.period >= 0
        /\ gfp.block0 \in 0..self.blockcount
        /\ gfp.block1 \in 0..self.blockcount
        /\ \A i \in 1..Len(calls) : calls[i].arg >= 0
====
